---------------------------- MODULE Spec2Model ----------------------------
(***************************************************************************)
(* Model of fix-field-names.py: a batch rewriter that renames camelCase    *)
(* field names to snake_case in the .ts/.tsx files under a root directory. *)
(*                                                                         *)
(* Text is a sequence of one-character strings.  A regular expression of   *)
(* the rule tables is a sequence of tokens: a literal character, "\\." (an *)
(* escaped dot) or "\\b" (a word boundary).  re.sub and re.findall are     *)
(* modelled by a left-to-right scan for non-overlapping matches.           *)
(***************************************************************************)
EXTENDS Integers, Sequences, FiniteSets, TLC

FIELD_MAPPINGS ==
    << << <<"o","r","d","e","r","I","d">>, <<"o","r","d","e","r","_","i","d">> >>,
       << <<"b","r","a","n","d","I","d">>, <<"b","r","a","n","d","_","i","d">> >>,
       << <<"c","l","i","e","n","t","I","d">>, <<"c","l","i","e","n","t","_","i","d">> >>,
       << <<"w","o","r","k","s","p","a","c","e","I","d">>, <<"w","o","r","k","s","p","a","c","e","_","i","d">> >>,
       << <<"u","s","e","r","I","d">>, <<"u","s","e","r","_","i","d">> >>,
       << <<"d","e","s","i","g","n","I","d">>, <<"d","e","s","i","g","n","_","i","d">> >>,
       << <<"t","e","m","p","l","a","t","e","I","d">>, <<"t","e","m","p","l","a","t","e","_","i","d">> >>,
       << <<"a","c","t","o","r","I","d">>, <<"a","c","t","o","r","_","i","d">> >>,
       << <<"e","n","t","i","t","y","I","d">>, <<"e","n","t","i","t","y","_","i","d">> >>,
       << <<"e","n","t","i","t","y","T","y","p","e">>, <<"e","n","t","i","t","y","_","t","y","p","e">> >>,
       << <<"m","a","c","h","i","n","e","I","d">>, <<"m","a","c","h","i","n","e","_","i","d">> >>,
       << <<"i","n","s","p","e","c","t","i","o","n","I","d">>, <<"i","n","s","p","e","c","t","i","o","n","_","i","d">> >>,
       << <<"o","p","e","r","a","t","i","o","n","I","d">>, <<"o","p","e","r","a","t","i","o","n","_","i","d">> >>,
       << <<"r","o","u","t","e","T","e","m","p","l","a","t","e","I","d">>, <<"r","o","u","t","e","_","t","e","m","p","l","a","t","e","_","i","d">> >>,
       << <<"r","o","u","t","i","n","g","S","t","e","p","I","d">>, <<"r","o","u","t","i","n","g","_","s","t","e","p","_","i","d">> >>,
       << <<"c","r","e","a","t","e","d","A","t">>, <<"c","r","e","a","t","e","d","_","a","t">> >>,
       << <<"u","p","d","a","t","e","d","A","t">>, <<"u","p","d","a","t","e","d","_","a","t">> >>,
       << <<"t","a","r","g","e","t","D","a","t","e">>, <<"t","a","r","g","e","t","_","d","a","t","e">> >>,
       << <<"s","t","a","r","t","D","a","t","e">>, <<"s","t","a","r","t","_","d","a","t","e">> >>,
       << <<"e","n","d","D","a","t","e">>, <<"e","n","d","_","d","a","t","e">> >>,
       << <<"d","u","e","D","a","t","e">>, <<"d","u","e","_","d","a","t","e">> >>,
       << <<"c","o","m","p","l","e","t","e","d","A","t">>, <<"c","o","m","p","l","e","t","e","d","_","a","t">> >>,
       << <<"a","p","p","r","o","v","e","d","A","t">>, <<"a","p","p","r","o","v","e","d","_","a","t">> >>,
       << <<"p","o","N","u","m","b","e","r">>, <<"p","o","_","n","u","m","b","e","r">> >>,
       << <<"p","r","o","d","u","c","t","T","y","p","e">>, <<"p","r","o","d","u","c","t","_","t","y","p","e">> >>,
       << <<"t","o","t","a","l","Q","t","y">>, <<"t","o","t","a","l","_","q","t","y">> >>,
       << <<"u","n","i","t","P","r","i","c","e">>, <<"u","n","i","t","_","p","r","i","c","e">> >>,
       << <<"t","o","t","a","l","V","a","l","u","e">>, <<"t","o","t","a","l","_","v","a","l","u","e">> >>,
       << <<"t","a","r","g","e","t","D","e","l","i","v","e","r","y">>, <<"t","a","r","g","e","t","_","d","e","l","i","v","e","r","y">> >>,
       << <<"t","a","r","g","e","t","D","e","l","i","v","e","r","y","D","a","t","e">>, <<"t","a","r","g","e","t","_","d","e","l","i","v","e","r","y","_","d","a","t","e">> >>,
       << <<"a","c","t","u","a","l","D","e","l","i","v","e","r","y">>, <<"a","c","t","u","a","l","_","d","e","l","i","v","e","r","y">> >>,
       << <<"a","c","t","u","a","l","D","e","l","i","v","e","r","y","D","a","t","e">>, <<"a","c","t","u","a","l","_","d","e","l","i","v","e","r","y","_","d","a","t","e">> >>,
       << <<"d","e","s","i","g","n","A","s","s","e","t","s">>, <<"d","e","s","i","g","n","_","a","s","s","e","t","s">> >>,
       << <<"a","s","s","e","t","I","d">>, <<"a","s","s","e","t","_","i","d">> >>,
       << <<"f","i","l","e","S","i","z","e">>, <<"f","i","l","e","_","s","i","z","e">> >>,
       << <<"f","i","l","e","N","a","m","e">>, <<"f","i","l","e","_","n","a","m","e">> >>,
       << <<"f","i","l","e","P","a","t","h">>, <<"f","i","l","e","_","p","a","t","h">> >>,
       << <<"m","i","m","e","T","y","p","e">>, <<"m","i","m","e","_","t","y","p","e">> >>,
       << <<"s","t","a","n","d","a","r","d","S","p","e","c">>, <<"s","t","a","n","d","a","r","d","_","s","p","e","c">> >>,
       << <<"a","c","t","u","a","l","S","p","e","c">>, <<"a","c","t","u","a","l","_","s","p","e","c">> >>,
       << <<"q","c","S","t","a","t","u","s">>, <<"q","c","_","s","t","a","t","u","s">> >>,
       << <<"d","e","f","e","c","t","C","o","d","e">>, <<"d","e","f","e","c","t","_","c","o","d","e">> >>,
       << <<"d","e","f","e","c","t","C","o","u","n","t">>, <<"d","e","f","e","c","t","_","c","o","u","n","t">> >>,
       << <<"r","e","j","e","c","t","Q","t","y">>, <<"r","e","j","e","c","t","_","q","t","y">> >>,
       << <<"p","a","s","s","Q","t","y">>, <<"p","a","s","s","_","q","t","y">> >>,
       << <<"r","o","u","t","i","n","g","S","t","e","p","s">>, <<"r","o","u","t","i","n","g","_","s","t","e","p","s">> >>,
       << <<"s","t","e","p","N","a","m","e">>, <<"s","t","e","p","_","n","a","m","e">> >>,
       << <<"s","t","e","p","I","d">>, <<"s","t","e","p","_","i","d">> >>,
       << <<"w","o","r","k","C","e","n","t","e","r">>, <<"w","o","r","k","_","c","e","n","t","e","r">> >>,
       << <<"p","l","a","n","n","e","d","S","t","a","r","t">>, <<"p","l","a","n","n","e","d","_","s","t","a","r","t">> >>,
       << <<"p","l","a","n","n","e","d","E","n","d">>, <<"p","l","a","n","n","e","d","_","e","n","d">> >>,
       << <<"a","c","t","u","a","l","S","t","a","r","t">>, <<"a","c","t","u","a","l","_","s","t","a","r","t">> >>,
       << <<"a","c","t","u","a","l","E","n","d">>, <<"a","c","t","u","a","l","_","e","n","d">> >>,
       << <<"i","s","A","c","t","i","v","e">>, <<"i","s","_","a","c","t","i","v","e">> >>,
       << <<"i","s","D","e","f","a","u","l","t">>, <<"i","s","_","d","e","f","a","u","l","t">> >>,
       << <<"i","s","C","o","m","p","l","e","t","e">>, <<"i","s","_","c","o","m","p","l","e","t","e">> >>,
       << <<"i","s","A","p","p","r","o","v","e","d">>, <<"i","s","_","a","p","p","r","o","v","e","d">> >>,
       << <<"i","s","R","e","j","e","c","t","e","d">>, <<"i","s","_","r","e","j","e","c","t","e","d">> >>,
       << <<"c","a","n","E","d","i","t">>, <<"c","a","n","_","e","d","i","t">> >>,
       << <<"c","a","n","D","e","l","e","t","e">>, <<"c","a","n","_","d","e","l","e","t","e">> >>,
       << <<"c","a","n","A","p","p","r","o","v","e">>, <<"c","a","n","_","a","p","p","r","o","v","e">> >>,
       << <<"c","o","s","t","P","e","r","U","n","i","t">>, <<"c","o","s","t","_","p","e","r","_","u","n","i","t">> >>,
       << <<"l","a","b","o","r","C","o","s","t">>, <<"l","a","b","o","r","_","c","o","s","t">> >>,
       << <<"m","a","t","e","r","i","a","l","C","o","s","t">>, <<"m","a","t","e","r","i","a","l","_","c","o","s","t">> >>,
       << <<"t","o","t","a","l","C","o","s","t">>, <<"t","o","t","a","l","_","c","o","s","t">> >>,
       << <<"p","r","i","c","i","n","g","D","a","t","a">>, <<"p","r","i","c","i","n","g","_","d","a","t","a">> >>,
       << <<"i","n","v","o","i","c","e","D","a","t","a">>, <<"i","n","v","o","i","c","e","_","d","a","t","a">> >>,
       << <<"l","a","s","t","M","o","d","i","f","i","e","d">>, <<"l","a","s","t","_","m","o","d","i","f","i","e","d">> >>,
       << <<"d","a","t","e","C","r","e","a","t","e","d">>, <<"d","a","t","e","_","c","r","e","a","t","e","d">> >>,
       << <<"d","a","t","e","U","p","d","a","t","e","d">>, <<"d","a","t","e","_","u","p","d","a","t","e","d">> >>,
       << <<"s","c","h","e","d","u","l","e","d","F","o","r">>, <<"s","c","h","e","d","u","l","e","d","_","f","o","r">> >> >>

PROPERTY_PATTERNS ==
    << << <<"\\.","o","r","d","e","r","I","d","\\b">>, <<".","o","r","d","e","r","_","i","d">> >>,
       << <<"\\.","b","r","a","n","d","I","d","\\b">>, <<".","b","r","a","n","d","_","i","d">> >>,
       << <<"\\.","c","l","i","e","n","t","I","d","\\b">>, <<".","c","l","i","e","n","t","_","i","d">> >>,
       << <<"\\.","w","o","r","k","s","p","a","c","e","I","d","\\b">>, <<".","w","o","r","k","s","p","a","c","e","_","i","d">> >>,
       << <<"\\.","u","s","e","r","I","d","\\b">>, <<".","u","s","e","r","_","i","d">> >>,
       << <<"\\.","d","e","s","i","g","n","I","d","\\b">>, <<".","d","e","s","i","g","n","_","i","d">> >>,
       << <<"\\.","t","e","m","p","l","a","t","e","I","d","\\b">>, <<".","t","e","m","p","l","a","t","e","_","i","d">> >>,
       << <<"\\.","c","r","e","a","t","e","d","A","t","\\b">>, <<".","c","r","e","a","t","e","d","_","a","t">> >>,
       << <<"\\.","u","p","d","a","t","e","d","A","t","\\b">>, <<".","u","p","d","a","t","e","d","_","a","t">> >>,
       << <<"\\.","p","o","N","u","m","b","e","r","\\b">>, <<".","p","o","_","n","u","m","b","e","r">> >>,
       << <<"\\.","t","o","t","a","l","Q","t","y","\\b">>, <<".","t","o","t","a","l","_","q","t","y">> >>,
       << <<"\\.","i","s","A","c","t","i","v","e","\\b">>, <<".","i","s","_","a","c","t","i","v","e">> >>,
       << <<"\\.","i","s","D","e","f","a","u","l","t","\\b">>, <<".","i","s","_","d","e","f","a","u","l","t">> >>,
       << <<"\\.","t","a","r","g","e","t","D","e","l","i","v","e","r","y","D","a","t","e","\\b">>, <<".","t","a","r","g","e","t","_","d","e","l","i","v","e","r","y","_","d","a","t","e">> >>,
       << <<"\\.","r","o","u","t","i","n","g","S","t","e","p","s","\\b">>, <<".","r","o","u","t","i","n","g","_","s","t","e","p","s">> >>,
       << <<"\\.","d","e","s","i","g","n","A","s","s","e","t","s","\\b">>, <<".","d","e","s","i","g","n","_","a","s","s","e","t","s">> >> >>

OBJECT_PATTERNS ==
    << << <<"\\b","o","r","d","e","r","I","d",":">>, <<"o","r","d","e","r","_","i","d",":">> >>,
       << <<"\\b","b","r","a","n","d","I","d",":">>, <<"b","r","a","n","d","_","i","d",":">> >>,
       << <<"\\b","c","l","i","e","n","t","I","d",":">>, <<"c","l","i","e","n","t","_","i","d",":">> >>,
       << <<"\\b","w","o","r","k","s","p","a","c","e","I","d",":">>, <<"w","o","r","k","s","p","a","c","e","_","i","d",":">> >>,
       << <<"\\b","u","s","e","r","I","d",":">>, <<"u","s","e","r","_","i","d",":">> >>,
       << <<"\\b","d","e","s","i","g","n","I","d",":">>, <<"d","e","s","i","g","n","_","i","d",":">> >>,
       << <<"\\b","t","e","m","p","l","a","t","e","I","d",":">>, <<"t","e","m","p","l","a","t","e","_","i","d",":">> >>,
       << <<"\\b","c","r","e","a","t","e","d","A","t",":">>, <<"c","r","e","a","t","e","d","_","a","t",":">> >>,
       << <<"\\b","u","p","d","a","t","e","d","A","t",":">>, <<"u","p","d","a","t","e","d","_","a","t",":">> >>,
       << <<"\\b","p","o","N","u","m","b","e","r",":">>, <<"p","o","_","n","u","m","b","e","r",":">> >>,
       << <<"\\b","t","o","t","a","l","Q","t","y",":">>, <<"t","o","t","a","l","_","q","t","y",":">> >>,
       << <<"\\b","i","s","A","c","t","i","v","e",":">>, <<"i","s","_","a","c","t","i","v","e",":">> >>,
       << <<"\\b","i","s","D","e","f","a","u","l","t",":">>, <<"i","s","_","d","e","f","a","u","l","t",":">> >>,
       << <<"\\b","t","a","r","g","e","t","D","e","l","i","v","e","r","y","D","a","t","e",":">>, <<"t","a","r","g","e","t","_","d","e","l","i","v","e","r","y","_","d","a","t","e",":">> >>,
       << <<"\\b","r","o","u","t","i","n","g","S","t","e","p","s",":">>, <<"r","o","u","t","i","n","g","_","s","t","e","p","s",":">> >>,
       << <<"\\b","d","e","s","i","g","n","A","s","s","e","t","s",":">>, <<"d","e","s","i","g","n","_","a","s","s","e","t","s",":">> >>,
       << <<"\\b","s","t","a","n","d","a","r","d","S","p","e","c",":">>, <<"s","t","a","n","d","a","r","d","_","s","p","e","c",":">> >> >>

VARIABLE_PATTERNS ==
    << << <<"\\b","u","s","e","r","I","d","\\b">>, <<"u","s","e","r","_","i","d">> >>,
       << <<"\\b","o","r","d","e","r","I","d","\\b">>, <<"o","r","d","e","r","_","i","d">> >>,
       << <<"\\b","b","r","a","n","d","I","d","\\b">>, <<"b","r","a","n","d","_","i","d">> >>,
       << <<"\\b","c","l","i","e","n","t","I","d","\\b">>, <<"c","l","i","e","n","t","_","i","d">> >>,
       << <<"\\b","w","o","r","k","s","p","a","c","e","I","d","\\b">>, <<"w","o","r","k","s","p","a","c","e","_","i","d">> >>,
       << <<"\\b","d","e","s","i","g","n","I","d","\\b">>, <<"d","e","s","i","g","n","_","i","d">> >>,
       << <<"\\b","t","e","m","p","l","a","t","e","I","d","\\b">>, <<"t","e","m","p","l","a","t","e","_","i","d">> >>,
       << <<"\\b","r","o","u","t","i","n","g","S","t","e","p","I","d","\\b">>, <<"r","o","u","t","i","n","g","_","s","t","e","p","_","i","d">> >>,
       << <<"\\b","r","o","u","t","e","T","e","m","p","l","a","t","e","I","d","\\b">>, <<"r","o","u","t","e","_","t","e","m","p","l","a","t","e","_","i","d">> >>,
       << <<"\\b","s","t","a","n","d","a","r","d","S","p","e","c","\\b">>, <<"s","t","a","n","d","a","r","d","_","s","p","e","c">> >>,
       << <<"\\b","t","o","t","a","l","Q","t","y","\\b">>, <<"t","o","t","a","l","_","q","t","y">> >>,
       << <<"\\b","t","a","r","g","e","t","D","e","l","i","v","e","r","y","D","a","t","e","\\b">>, <<"t","a","r","g","e","t","_","d","e","l","i","v","e","r","y","_","d","a","t","e">> >> >>

(***************************************************************************)
(* The regular-expression subset used by the rule tables.                  *)
(***************************************************************************)

\* The characters Python's \w matches (letters, digits, underscore).
WordChars ==
    { "a","b","c","d","e","f","g","h","i","j","k","l","m",
      "n","o","p","q","r","s","t","u","v","w","x","y","z",
      "A","B","C","D","E","F","G","H","I","J","K","L","M",
      "N","O","P","Q","R","S","T","U","V","W","X","Y","Z",
      "0","1","2","3","4","5","6","7","8","9","_" }

\* Whether position i of text holds a word character (FALSE outside the text).
IsWordAt(text, i) ==
    /\ i >= 1
    /\ i <= Len(text)
    /\ text[i] \in WordChars

\* Faulty variant: the patterns written without \b, so that a name matches
\* inside a longer identifier.
NoBoundary(text, i) == TRUE

\* \b holds between text[i-1] and text[i] when exactly one side is a word character.
Boundary(text, i) == IsWordAt(text, i - 1) # IsWordAt(text, i)

\* Matching pattern tokens k.. against text from position i: the position after
\* the match, or 0 when there is no match here.
RECURSIVE MatchAt(_, _, _, _)
MatchAt(pattern, k, text, i) ==
    IF k > Len(pattern) THEN i
    ELSE IF pattern[k] = "\\b"
         THEN IF Boundary(text, i) THEN MatchAt(pattern, k + 1, text, i) ELSE 0
    ELSE IF pattern[k] = "\\."
         THEN IF i <= Len(text) /\ text[i] = "."
              THEN MatchAt(pattern, k + 1, text, i + 1) ELSE 0
    ELSE IF i <= Len(text) /\ text[i] = pattern[k]
         THEN MatchAt(pattern, k + 1, text, i + 1) ELSE 0

\* re.sub(pattern, replacement, text) from position i on, acc being the output so far.
RECURSIVE SubFrom(_, _, _, _, _)
SubFrom(pattern, replacement, text, i, acc) ==
    IF i > Len(text) THEN acc
    ELSE LET e == MatchAt(pattern, 1, text, i)
         IN  IF e > i
             THEN SubFrom(pattern, replacement, text, e, acc \o replacement)
             ELSE SubFrom(pattern, replacement, text, i + 1, Append(acc, text[i]))

\* Faulty variant: re.sub with count=1, which replaces the leftmost match only.
re_sub_first(pattern, replacement, text) ==
    LET starts == { i \in 1..Len(text) : MatchAt(pattern, 1, text, i) > i }
    IN  IF starts = {} THEN text
        ELSE LET i == CHOOSE s \in starts : \A t \in starts : s <= t
             IN  SubSeq(text, 1, i - 1) \o replacement
                     \o SubSeq(text, MatchAt(pattern, 1, text, i), Len(text))

\* Whether the pattern matches somewhere in the text (re.search).
MatchesIn(pattern, text) ==
    \E i \in 1..(Len(text) + 1) : MatchAt(pattern, 1, text, i) > 0

\* re.sub(pattern, replacement, text): the text itself when nothing matches.
re_sub(pattern, replacement, text) ==
    IF MatchesIn(pattern, text)
    THEN SubFrom(pattern, replacement, text, 1, <<>>)
    ELSE text

\* len(re.findall(pattern, text)) from position i on.
RECURSIVE FindFrom(_, _, _)
FindFrom(pattern, text, i) ==
    IF i > Len(text) THEN 0
    ELSE LET e == MatchAt(pattern, 1, text, i)
         IN  IF e > i
             THEN 1 + FindFrom(pattern, text, e)
             ELSE FindFrom(pattern, text, i + 1)

re_findall_len(pattern, text) == FindFrom(pattern, text, 1)

(***************************************************************************)
(* fix_file's text transformation (lines 167-189).                         *)
(***************************************************************************)

\* The single element of a singleton set.
Only(S) == CHOOSE x \in S : TRUE

\* Faulty variant: "changes += 1" for a rule that changed the text, however
\* many matches it replaced.
ApplyRuleCountsOne(rule, st) ==
    LET new_content == re_sub(rule[1], rule[2], st.content)
    IN  IF new_content # st.content
        THEN [content |-> new_content, changes |-> st.changes + 1]
        ELSE st

\* One iteration of a "for pattern, replacement in ..." loop; st is
\* [content, changes] and rule is <<pattern, replacement>>.
ApplyRule(rule, st) ==
    LET new_content == re_sub(rule[1], rule[2], st.content)
    IN  IF new_content # st.content
        THEN [content |-> new_content,
              changes |-> st.changes + re_findall_len(rule[1], st.content)]
        ELSE st

\* A whole "for" loop over one pattern list, from rule k on.
\* (The singleton sets only fix the order of evaluation: each rule's result is
\* computed before the next rule is applied to it.)
RECURSIVE ApplyRules(_, _, _)
ApplyRules(rules, k, st) ==
    IF k > Len(rules) THEN st
    ELSE Only({ ApplyRules(rules, k + 1, s) : s \in { ApplyRule(rules[k], st) } })

\* The three loops in order: property access, object literal, variable name.
Rewrite(text) ==
    Only({ ApplyRules(VARIABLE_PATTERNS, 1, o) :
             o \in { ApplyRules(OBJECT_PATTERNS, 1, p) :
                       p \in { ApplyRules(PROPERTY_PATTERNS, 1,
                                          [content |-> text, changes |-> 0]) } } })

(***************************************************************************)
(* File I/O as fix_file and main use it.                                   *)
(***************************************************************************)

\* A byte that is not valid UTF-8: decoding a file that holds one raises
\* UnicodeDecodeError.
InvalidBytes == { "\\xff" }

\* Whether f.read() can decode the bytes (encoding='utf-8', line 164).
Decodable(bytes) == \A i \in 1..Len(bytes) : bytes[i] \notin InvalidBytes

\* Text mode reading translates "\r\n" and a lone "\r" to "\n" (open(..., 'r')
\* with the default newline=None, line 164).
RECURSIVE DecodeFrom(_, _)
DecodeFrom(bytes, i) ==
    IF i > Len(bytes) THEN <<>>
    ELSE IF bytes[i] = "\r"
         THEN IF i < Len(bytes) /\ bytes[i + 1] = "\n"
              THEN <<"\n">> \o DecodeFrom(bytes, i + 2)
              ELSE <<"\n">> \o DecodeFrom(bytes, i + 1)
    ELSE <<bytes[i]>> \o DecodeFrom(bytes, i + 1)

Decode(bytes) == DecodeFrom(bytes, 1)

\* os.linesep, here that of a POSIX platform.
linesep == <<"\n">>

\* Text mode writing translates "\n" to os.linesep (open(..., 'w') with the
\* default newline=None, line 193).
RECURSIVE EncodeFrom(_, _)
EncodeFrom(text, i) ==
    IF i > Len(text) THEN <<>>
    ELSE (IF text[i] = "\n" THEN linesep ELSE <<text[i]>>) \o EncodeFrom(text, i + 1)

Encode(text) == EncodeFrom(text, 1)

\* str.endswith for one suffix.
EndsWith(s, suffix) ==
    /\ Len(s) >= Len(suffix)
    /\ SubSeq(s, Len(s) - Len(suffix) + 1, Len(s)) = suffix

\* Faulty variant: the suffixes written without their dot.
IsTypeScriptNoDot(file) ==
    \/ EndsWith(file, <<"t","s">>)
    \/ EndsWith(file, <<"t","s","x">>)

\* file.endswith(('.ts', '.tsx')) (line 210).
IsTypeScript(file) ==
    \/ EndsWith(file, <<".","t","s">>)
    \/ EndsWith(file, <<".","t","s","x">>)

\* src_dir = "src" (line 203).
src_dir == <<"s","r","c">>

\* os.path.join(root, file) (line 211).
JoinPath(root, file) == root \o <<"/">> \o file

\* Faulty variant: "except OSError", which lets a decoding error through.
CaughtOSErrorOnly(kind) == kind \in { "OSError" }

\* "except Exception" (line 197): the exception classes the handler catches.
\* OSError (open, read, write failures) and UnicodeDecodeError are subclasses
\* of Exception.
Caught(kind) == kind \in { "OSError", "UnicodeDecodeError" }

\* Faulty variant: open() and close() without "with"; an exception skips the close.
ExitLeaksOnRaise(open_handles, h, raised) ==
    IF raised THEN open_handles ELSE open_handles \ { h }

\* Leaving a "with open(...) as f" block closes f, whether the block ended
\* normally or by an exception (lines 164-165, 193-194).
WithExit(open_handles, h, raised) == open_handles \ { h }

\* Faulty variant: the file is written whether or not the text changed.
AlwaysWrite(new_text, old_text) == TRUE

\* "if content != original_content" (line 192).
NeedsWrite(new_text, old_text) == new_text # old_text

\* Faulty variant: "if changes >= 0".
CountsZeroToo(n) == n >= 0

\* "if changes > 0" (line 213).
Counts(n) == n > 0

\* Faulty variant: the handler returns the matches counted before the failure.
HandlerKeepsCount(n) == n

\* What fix_file's handler returns (line 199).
HandlerResult(n) == 0

(***************************************************************************)
(* State.                                                                  *)
(***************************************************************************)
VARIABLES
    \* the rewrite applied to a text, twice in sequence
    input,              \* the text given to the first pass
    pass,               \* how many passes have run
    first,              \* [content, changes] after the first pass
    second,             \* [content, changes] after the second pass
    \* the file system
    disk,               \* path -> bytes of the file
    handles,            \* the file objects that are open: <<path, mode>>
    \* main
    todo,               \* the names os.walk has yet to yield
    pc,                 \* where the program is
    files_changed,      \* main's counter (line 205)
    total_changes,      \* main's counter (line 204)
    main_changes,       \* main's "changes", the value fix_file returned (line 212)
    stdout,             \* the lines printed
    \* fix_file
    file_path,          \* the path being processed
    content,            \* fix_file's "content"
    original_content,   \* fix_file's "original_content"
    changes,            \* fix_file's "changes"
    exc,                \* the exception being raised, or "none"
    \* history of the run
    disk0,              \* the file system as the run found it
    opened,             \* the paths open() was called on, in either mode
    wopened,            \* the paths open() was called on for writing
    wrote,              \* the paths whose write completed
    failed,             \* the paths whose processing raised
    returned            \* fix_file's returns, in order: [path, count, and differs:
                        \* whether content # original_content at the return]

rewriteVars == <<input, pass, first, second>>
runVars ==
    <<disk, handles, todo, pc, files_changed, total_changes, main_changes,
      stdout, file_path, content, original_content, changes, exc,
      disk0, opened, wopened, wrote, failed, returned>>
vars == <<rewriteVars, runVars>>

NoPath == <<>>
NoResult == [content |-> <<>>, changes |-> 0]

(***************************************************************************)
(* The rewrite as a function of a text: inputs and the two passes.         *)
(***************************************************************************)

\* The most fragments an input text is put together from.
MaxFrags == 3

orderId == <<"o","r","d","e","r","I","d">>
userId == <<"u","s","e","r","I","d">>
isActive == <<"i","s","A","c","t","i","v","e">>
standardSpec == <<"s","t","a","n","d","a","r","d","S","p","e","c">>
routingStepId == <<"r","o","u","t","i","n","g","S","t","e","p","I","d">>
routeTemplateId == <<"r","o","u","t","e","T","e","m","p","l","a","t","e","I","d">>
templateId == <<"t","e","m","p","l","a","t","e","I","d">>
entityId == <<"e","n","t","i","t","y","I","d">>

\* The pieces input texts are put together from: punctuation that makes a
\* lexical context, a separator, a word character, and names with rules in all
\* three lists (orderId), in the first two only (isActive), in the last two
\* only (standardSpec) and in the last only (routingStepId).
Fragments ==
    { <<".">>, <<":">>, <<" ">>, <<"2">>, orderId, isActive, standardSpec, routingStepId }

RECURSIVE Texts(_)
Texts(n) ==
    IF n = 0 THEN { <<>> }
    ELSE LET shorter == Texts(n - 1)
         IN  shorter \cup { t \o f : t \in shorter, f \in Fragments }

\* Longer texts: the scenarios of the specification and the names the
\* fragments leave out.
Scenarios ==
    { <<"c","o","n","s","t"," ">> \o userId \o <<" ","="," ","o","r","d","e","r",".">> \o orderId \o <<";">>,
      <<"{"," ">> \o isActive \o <<":"," ","t","r","u","e",","," ">> \o standardSpec \o <<":"," ","x"," ","}">>,
      <<"l","e","t"," ","n"," ","="," ","1",";","\n">>,
      routingStepId \o <<" ">> \o routeTemplateId,
      routeTemplateId \o <<",">> \o routingStepId \o <<",">> \o templateId,
      routingStepId \o routeTemplateId,
      <<"x",".">> \o orderId \o <<"2"," ","x",".">> \o orderId,
      <<"x",".">> \o templateId \o <<":"," ">> \o templateId \o <<":"," ">> \o templateId,
      entityId \o <<":"," ","x",".">> \o entityId \o <<" ">> \o entityId,
      <<"_">> \o userId \o <<" ">> \o userId \o <<"_"," ","$">> \o userId,
      <<"o","r","d","e","r","_","i","d",":"," ","x",".","u","s","e","r","_","i","d">>,
      <<"x",".">> \o standardSpec \o <<":"," ">> \o standardSpec \o <<"s"," ">> \o standardSpec,
      userId \o <<" ",":"," ">> \o isActive \o <<" ",":"," ",".">> \o <<" ">> \o isActive }

Inputs == Texts(MaxFrags) \cup Scenarios

RewriteIdle ==
    /\ input = <<>>
    /\ pass = 0
    /\ first = NoResult
    /\ second = NoResult

RunIdle ==
    /\ disk = <<>>
    /\ disk0 = <<>>
    /\ handles = {}
    /\ todo = {}
    /\ pc = "idle"
    /\ files_changed = 0
    /\ total_changes = 0
    /\ main_changes = 0
    /\ stdout = <<>>
    /\ file_path = NoPath
    /\ content = <<>>
    /\ original_content = <<>>
    /\ changes = 0
    /\ exc = "none"
    /\ opened = {}
    /\ wopened = {}
    /\ wrote = {}
    /\ failed = {}
    /\ returned = <<>>

RewriteInit ==
    /\ input \in Inputs
    /\ pass = 0
    /\ first = NoResult
    /\ second = NoResult
    /\ RunIdle

\* rewrite(text) on the input.
FirstPass ==
    /\ pass = 0
    /\ first' = Rewrite(input)
    /\ pass' = 1
    /\ UNCHANGED <<input, second, runVars>>

\* rewrite(text) on the output of the first pass.
SecondPass ==
    /\ pass = 1
    /\ second' = Rewrite(first.content)
    /\ pass' = 2
    /\ UNCHANGED <<input, first, runVars>>

RewriteNext == FirstPass \/ SecondPass

RewriteSpec == RewriteInit /\ [][RewriteNext]_vars

(***************************************************************************)
(* main and fix_file over a directory tree.                                *)
(***************************************************************************)

\* The most files the tree under src holds.
MaxFiles == 2

\* File names: two that end in a recognized suffix and one that ends in "ts"
\* without the dot before it.
Names ==
    { <<"a",".","t","s">>, <<"b",".","t","s","x">>, <<"c",".","m","t","s">> }

\* File contents: a known name outside the lexical contexts of its rules (no
\* match); one match and a "\r\n" line end; two matches, of two lists; a match
\* and a byte that does not decode.
Samples ==
    { isActive,
      <<".">> \o userId \o <<"\r","\n">>,
      userId \o <<":">> \o userId,
      <<".">> \o userId \o <<"\\xff">> }

Trees ==
    UNION { [ { JoinPath(src_dir, n) : n \in ns } -> Samples ] :
              ns \in { s \in SUBSET Names : Cardinality(s) <= MaxFiles } }

Init ==
    /\ RewriteIdle
    /\ disk \in Trees
    /\ disk0 = disk
    /\ handles = {}
    /\ todo = { n \in Names : JoinPath(src_dir, n) \in DOMAIN disk }
    /\ pc = "walk"
    /\ files_changed = 0
    /\ total_changes = 0
    /\ main_changes = 0
    /\ stdout = <<>>
    /\ file_path = NoPath
    /\ content = <<>>
    /\ original_content = <<>>
    /\ changes = 0
    /\ exc = "none"
    /\ opened = {}
    /\ wopened = {}
    /\ wrote = {}
    /\ failed = {}
    /\ returned = <<>>

fsVars == <<disk, handles, disk0, opened, wopened, wrote>>
mainVars == <<todo, files_changed, total_changes, main_changes, stdout>>
localVars == <<content, original_content, changes>>

\* Lines 208-212: os.walk yields a name that passes the filter; fix_file is called.
WalkCandidate ==
    /\ pc = "walk"
    /\ \E file \in todo :
        /\ IsTypeScript(file)
        /\ todo' = todo \ { file }
        /\ file_path' = JoinPath(src_dir, file)
    /\ pc' = "open_r"
    /\ content' = <<>>
    /\ original_content' = <<>>
    /\ changes' = 0
    /\ UNCHANGED <<rewriteVars, fsVars, files_changed, total_changes, main_changes,
                   stdout, exc, failed, returned>>

\* Lines 208-210: os.walk yields a name the filter rejects.
WalkSkip ==
    /\ pc = "walk"
    /\ \E file \in todo :
        /\ ~IsTypeScript(file)
        /\ todo' = todo \ { file }
    /\ UNCHANGED <<rewriteVars, fsVars, pc, files_changed, total_changes, main_changes,
                   stdout, file_path, localVars, exc, failed, returned>>

\* Line 164: open(file_path, 'r') succeeds.
OpenRead ==
    /\ pc = "open_r"
    /\ handles' = handles \cup { <<file_path, "r">> }
    /\ opened' = opened \cup { file_path }
    /\ pc' = "read"
    /\ UNCHANGED <<rewriteVars, disk, disk0, wopened, wrote, mainVars, file_path,
                   localVars, exc, failed, returned>>

\* Line 164: open(file_path, 'r') raises OSError.
OpenReadFails ==
    /\ pc = "open_r"
    /\ opened' = opened \cup { file_path }
    /\ exc' = "OSError"
    /\ failed' = failed \cup { file_path }
    /\ pc' = "except"
    /\ UNCHANGED <<rewriteVars, disk, handles, disk0, wopened, wrote, mainVars,
                   file_path, localVars, returned>>

\* Lines 165-168: f.read() returns the decoded text, the with block is left, and
\* original_content and changes are set.
ReadClose ==
    /\ pc = "read"
    /\ Decodable(disk[file_path])
    /\ content' = Decode(disk[file_path])
    /\ original_content' = Decode(disk[file_path])
    /\ changes' = 0
    /\ handles' = WithExit(handles, <<file_path, "r">>, FALSE)
    /\ pc' = "rewrite"
    /\ UNCHANGED <<rewriteVars, disk, disk0, opened, wopened, wrote, mainVars,
                   file_path, exc, failed, returned>>

\* Line 165: f.read() raises, OSError from the device or UnicodeDecodeError from
\* the bytes; the with block is left by the exception.
ReadFails ==
    /\ pc = "read"
    /\ \/ exc' = "OSError"
       \/ /\ ~Decodable(disk[file_path])
          /\ exc' = "UnicodeDecodeError"
    /\ handles' = WithExit(handles, <<file_path, "r">>, TRUE)
    /\ failed' = failed \cup { file_path }
    /\ pc' = "except"
    /\ UNCHANGED <<rewriteVars, disk, disk0, opened, wopened, wrote, mainVars,
                   file_path, localVars, returned>>

\* Lines 170-192: the three loops, then the test that decides on the write.
Transform ==
    /\ pc = "rewrite"
    /\ \E r \in { Rewrite(content) } :
        /\ content' = r.content
        /\ changes' = r.changes
        /\ pc' = IF NeedsWrite(r.content, original_content) THEN "open_w" ELSE "return"
    /\ UNCHANGED <<rewriteVars, fsVars, mainVars, file_path, original_content, exc,
                   failed, returned>>

\* Line 193: open(file_path, 'w') succeeds and truncates the file.
OpenWrite ==
    /\ pc = "open_w"
    /\ disk' = [disk EXCEPT ![file_path] = <<>>]
    /\ handles' = handles \cup { <<file_path, "w">> }
    /\ opened' = opened \cup { file_path }
    /\ wopened' = wopened \cup { file_path }
    /\ pc' = "write"
    /\ UNCHANGED <<rewriteVars, disk0, wrote, mainVars, file_path, localVars,
                   exc, failed, returned>>

\* Line 193: open(file_path, 'w') raises OSError; the file is as it was.
OpenWriteFails ==
    /\ pc = "open_w"
    /\ opened' = opened \cup { file_path }
    /\ wopened' = wopened \cup { file_path }
    /\ exc' = "OSError"
    /\ failed' = failed \cup { file_path }
    /\ pc' = "except"
    /\ UNCHANGED <<rewriteVars, disk, handles, disk0, wrote, mainVars,
                   file_path, localVars, returned>>

\* Line 194 and the end of the with block: the text is written and the file closed.
WriteClose ==
    /\ pc = "write"
    /\ disk' = [disk EXCEPT ![file_path] = Encode(content)]
    /\ handles' = WithExit(handles, <<file_path, "w">>, FALSE)
    /\ wrote' = wrote \cup { file_path }
    /\ pc' = "return"
    /\ UNCHANGED <<rewriteVars, disk0, opened, wopened, mainVars, file_path, localVars,
                   exc, failed, returned>>

\* Line 194: the write (or the flush on close) raises OSError; any prefix of
\* the bytes, none and all of them included, may have reached the file.
WriteFails ==
    /\ pc = "write"
    /\ \E n \in 0..Len(Encode(content)) :
        disk' = [disk EXCEPT ![file_path] = SubSeq(Encode(content), 1, n)]
    /\ handles' = WithExit(handles, <<file_path, "w">>, TRUE)
    /\ exc' = "OSError"
    /\ failed' = failed \cup { file_path }
    /\ pc' = "except"
    /\ UNCHANGED <<rewriteVars, disk0, opened, wopened, wrote, mainVars, file_path,
                   localVars, returned>>

\* Line 196: return changes.
Return ==
    /\ pc = "return"
    /\ main_changes' = changes
    /\ returned' = Append(returned, [path |-> file_path, count |-> changes,
                                     differs |-> content # original_content])
    /\ pc' = "main_if"
    /\ UNCHANGED <<rewriteVars, fsVars, todo, files_changed, total_changes, stdout,
                   file_path, localVars, exc, failed>>

\* Lines 197-199: the handler prints the error and returns 0; an exception it
\* does not catch leaves fix_file and main.
Except ==
    /\ pc = "except"
    /\ IF Caught(exc)
       THEN /\ stdout' = Append(stdout, [line |-> "Error processing", path |-> file_path,
                                         e |-> exc])
            /\ main_changes' = HandlerResult(changes)
            /\ returned' = Append(returned, [path |-> file_path,
                                             count |-> HandlerResult(changes),
                                             differs |-> content # original_content])
            /\ exc' = "none"
            /\ pc' = "main_if"
       ELSE /\ pc' = "aborted"
            /\ UNCHANGED <<stdout, main_changes, returned, exc>>
    /\ UNCHANGED <<rewriteVars, fsVars, todo, files_changed, total_changes, file_path,
                   localVars, failed>>

\* Lines 213-216: the counters and the progress line.
Accumulate ==
    /\ pc = "main_if"
    /\ IF Counts(main_changes)
       THEN /\ files_changed' = files_changed + 1
            /\ total_changes' = total_changes + main_changes
            /\ stdout' = Append(stdout, [line |-> "Fixed", n |-> main_changes,
                                         path |-> file_path])
       ELSE UNCHANGED <<files_changed, total_changes, stdout>>
    /\ pc' = "walk"
    /\ UNCHANGED <<rewriteVars, fsVars, todo, main_changes, file_path, localVars, exc,
                   failed, returned>>

\* Lines 218-220: the walk is over; the summary is printed.
Summary ==
    /\ pc = "walk"
    /\ todo = {}
    /\ stdout' = Append(stdout, [line |-> "Completed", files_changed |-> files_changed,
                                 total_changes |-> total_changes])
    /\ pc' = "done"
    /\ UNCHANGED <<rewriteVars, fsVars, todo, files_changed, total_changes, main_changes,
                   file_path, localVars, exc, failed, returned>>

Next ==
    \/ WalkCandidate
    \/ WalkSkip
    \/ OpenRead
    \/ OpenReadFails
    \/ ReadClose
    \/ ReadFails
    \/ Transform
    \/ OpenWrite
    \/ OpenWriteFails
    \/ WriteClose
    \/ WriteFails
    \/ Return
    \/ Except
    \/ Accumulate
    \/ Summary

Spec == Init /\ [][Next]_vars

\* main is one sequential thread: whenever a step is possible, one is taken.
FairSpec == Spec /\ WF_vars(Next)

(***************************************************************************)
(* Properties of the rewrite as a function of a text (under RewriteSpec).  *)
(***************************************************************************)

\* All rules in the order fix_file applies them.
AllRules == PROPERTY_PATTERNS \o OBJECT_PATTERNS \o VARIABLE_PATTERNS

\* Whether no rule's pattern matches anywhere in the text.
NoRuleMatches(text) ==
    \A k \in DOMAIN AllRules : ~MatchesIn(AllRules[k][1], text)

\* C1: Idempotence of the rewrite.  After one pass over any input no rule's
\* pattern matches anywhere in the output, and a second pass over the output
\* of the first returns the same text with a change count of 0.
C1_Idempotent ==
    /\ pass = 1 => NoRuleMatches(first.content)
    /\ pass = 2 => /\ second.content = first.content
                   /\ second.changes = 0

\* A second pass has run over the output of a first pass that replaced matches
\* of at least two rules.
C1_Witness ==
    /\ pass = 2
    /\ first.changes >= 2
    /\ first.content # input

\* The matches of a pattern in a text, counted by their start positions (two
\* matches of one of these patterns cannot overlap: each starts with "." or at
\* the start of an identifier and ends at its end or with ":").
NumMatches(pattern, text) ==
    Cardinality({ i \in 1..Len(text) : MatchAt(pattern, 1, text, i) > 0 })

\* The text st.text after the rules from k on, with st.sum increased, for each
\* rule, by the number of its matches in the text as it stands when it is applied.
RECURSIVE MatchSum(_, _, _)
MatchSum(rules, k, st) ==
    IF k > Len(rules) THEN st
    ELSE Only({ MatchSum(rules, k + 1, t) :
                  t \in { [text |-> re_sub(rules[k][1], rules[k][2], st.text),
                           sum |-> st.sum + NumMatches(rules[k][1], st.text)] } })

\* The same over the three groups in order.
MatchSumAll(text) ==
    Only({ MatchSum(VARIABLE_PATTERNS, 1, o) :
             o \in { MatchSum(OBJECT_PATTERNS, 1, p) :
                       p \in { MatchSum(PROPERTY_PATTERNS, 1,
                                        [text |-> text, sum |-> 0]) } } })

\* C2: Count accuracy.  The count the rewrite returns for a text equals the sum,
\* over all rules of the three groups in order, of the number of matches of the
\* rule's pattern in the text as it stands when the rule is applied.
C2_CountAccurate ==
    pass = 1 => first.changes = MatchSumAll(input).sum

\* A pass counted three matches, one of a rule of each group.
C2_Witness ==
    /\ pass = 1
    /\ first.changes = 3
    /\ \E k \in DOMAIN PROPERTY_PATTERNS : MatchesIn(PROPERTY_PATTERNS[k][1], input)
    /\ \E t \in { ApplyRules(PROPERTY_PATTERNS, 1, [content |-> input, changes |-> 0]) } :
        /\ t.changes = 1
        /\ \E u \in { ApplyRules(OBJECT_PATTERNS, 1, t) } : u.changes = 2

\* The name a rule's pattern targets: the pattern without "\.", "\b" and ":".
IsNameChar(c) == c \notin { "\\.", "\\b", ":" }
RuleName(pattern) == SelectSeq(pattern, IsNameChar)
PropertyNames == { RuleName(PROPERTY_PATTERNS[k][1]) : k \in DOMAIN PROPERTY_PATTERNS }
ObjectNames == { RuleName(OBJECT_PATTERNS[k][1]) : k \in DOMAIN OBJECT_PATTERNS }
VariableNames == { RuleName(VARIABLE_PATTERNS[k][1]) : k \in DOMAIN VARIABLE_PATTERNS }

\* The snake_case form FIELD_MAPPINGS gives for a name.
Snake(name) ==
    FIELD_MAPPINGS[CHOOSE k \in DOMAIN FIELD_MAPPINGS : FIELD_MAPPINGS[k][1] = name][2]

\* The last position of the identifier token that starts at position i.
TokenEnd(text, i) ==
    CHOOSE e \in i..Len(text) :
        /\ \A j \in i..e : IsWordAt(text, j)
        /\ ~IsWordAt(text, e + 1)

\* What becomes of the token text[i..e]: its snake_case form when it is a
\* targeted name in the lexical context of one of its rules, else itself.
TokenOut(text, i, e) ==
    LET token == SubSeq(text, i, e)
        inContext ==
            \/ token \in PropertyNames /\ i > 1 /\ text[i - 1] = "."
            \/ token \in ObjectNames /\ e < Len(text) /\ text[e + 1] = ":"
            \/ token \in VariableNames
    IN  IF inContext THEN Snake(token) ELSE token

\* The text rewritten token by token, from position i on (i is never inside a
\* token: a token is consumed whole).
RECURSIVE ByTokens(_, _)
ByTokens(text, i) ==
    IF i > Len(text) THEN <<>>
    ELSE IF ~IsWordAt(text, i) THEN <<text[i]>> \o ByTokens(text, i + 1)
    ELSE Only({ TokenOut(text, i, e) \o ByTokens(text, e + 1) :
                  e \in { TokenEnd(text, i) } })

\* C5: Word-boundary correctness.  The rewrite changes exactly the whole
\* identifier tokens that are a targeted name in the lexical context of one of
\* its rules (after ".", before ":", or anywhere for the names of
\* VARIABLE_PATTERNS), each to its snake_case form, and nothing else: a
\* targeted name inside a longer identifier stays.  ".orderId2" is unchanged,
\* ".orderId" becomes ".order_id", and routingStepId and routeTemplateId side
\* by side become routing_step_id and route_template_id.
C5_WordBoundary ==
    pass = 1 =>
        /\ first.content = ByTokens(input, 1)
        /\ input = <<".">> \o orderId \o <<"2">> => first.content = input
        /\ input = <<".">> \o orderId
              => first.content = <<".","o","r","d","e","r","_","i","d">>
        /\ input = routingStepId \o <<" ">> \o routeTemplateId
              => first.content =
                    <<"r","o","u","t","i","n","g","_","s","t","e","p","_","i","d">>
                    \o <<" ">>
                    \o <<"r","o","u","t","e","_","t","e","m","p","l","a","t","e","_","i","d">>

\* A pass over "x.orderId2 x.orderId" left the first name and rewrote the second.
C5_Witness ==
    /\ pass = 1
    /\ input = <<"x",".">> \o orderId \o <<"2"," ","x",".">> \o orderId
    /\ first.content = <<"x",".">> \o orderId
                          \o <<"2"," ","x",".","o","r","d","e","r","_","i","d">>
    /\ first.changes = 1

(***************************************************************************)
(* Properties of a run of main (under Spec and FairSpec).                  *)
(***************************************************************************)

\* The paths of the tree as the run found it.
Paths == DOMAIN disk0

\* Whether a name ends in ".ts" or ".tsx".
HasSourceSuffix(name) ==
    LET n == Len(name)
    IN  \/ n >= 3 /\ name[n - 2] = "." /\ name[n - 1] = "t" /\ name[n] = "s"
        \/ n >= 4 /\ name[n - 3] = "." /\ name[n - 2] = "t" /\ name[n - 1] = "s"
                  /\ name[n] = "x"

\* The paths of the candidate files and of the other files of the tree.
CandidatePaths ==
    { JoinPath(src_dir, n) : n \in { m \in Names : HasSourceSuffix(m) } } \cap Paths
OtherPaths == Paths \ CandidatePaths

\* The returns of fix_file so far that satisfy a condition on the record.
ReturnsOf(path) == { i \in DOMAIN returned : returned[i].path = path }

\* The sum of the counts of the returns whose index is in a set.
RECURSIVE SumCounts(_)
SumCounts(indices) ==
    IF indices = {} THEN 0
    ELSE LET i == CHOOSE j \in indices : TRUE
         IN  returned[i].count + SumCounts(indices \ { i })

\* No call of fix_file is under way: main is between two files or has finished.
BetweenFiles == pc \in { "walk", "done" }

\* C3: No-op stability.  A file is opened for writing only when the rewritten
\* text differs from the text read; when fix_file ends with the rewritten text
\* equal to the original, it has not opened the file for writing, the file's
\* content is what it was, and the count it returns is 0.
C3_NoOpStable ==
    /\ pc \in { "open_w", "write" } => content # original_content
    /\ pc = "return" /\ content = original_content
          => /\ file_path \notin wopened
             /\ disk[file_path] = disk0[file_path]
             /\ changes = 0
    /\ \A i \in DOMAIN returned :
          ~returned[i].differs
              => /\ returned[i].path \notin wopened
                 /\ disk[returned[i].path] = disk0[returned[i].path]
                 /\ returned[i].count = 0
    /\ \A p \in wopened :
          \/ p = file_path /\ content # original_content
          \/ \E i \in ReturnsOf(p) : returned[i].differs

\* fix_file read a file without failure, found nothing to rewrite and returned,
\* in a run that also rewrote another file.
C3_Witness ==
    /\ pc = "done"
    /\ \E i \in DOMAIN returned :
          /\ ~returned[i].differs
          /\ returned[i].path \notin failed
    /\ wrote # {}

\* C4: Per-file failure isolation.  A failure of open, read, decode or write
\* inside fix_file never leaves fix_file: the run is never aborted, fix_file
\* returns 0 for the file, and the file adds nothing to files_changed or
\* total_changes.
C4_FailureIsolated ==
    /\ pc # "aborted"
    /\ \A i \in DOMAIN returned :
          returned[i].path \in failed => returned[i].count = 0
    /\ pc = "main_if" /\ file_path \in failed => main_changes = 0
    /\ BetweenFiles =>
          LET clean == { i \in DOMAIN returned :
                           returned[i].path \notin failed /\ returned[i].count > 0 }
          IN  /\ files_changed = Cardinality(clean)
              /\ total_changes = SumCounts(clean)

\* A run ended in which one file failed after its matches had been counted and
\* another file was rewritten.
C4_Witness ==
    /\ pc = "done"
    /\ files_changed >= 1
    /\ \E p \in failed : p \in wopened

\* C6: Run summary.  Between two files and at the end, files_changed is the
\* number of processed files for which fix_file returned a nonzero count and
\* total_changes is the sum of those counts; the summary printed at the end
\* reports these two values.
C6_RunSummary ==
    /\ BetweenFiles =>
          LET nonzero == { i \in DOMAIN returned : returned[i].count # 0 }
          IN  /\ files_changed = Cardinality(nonzero)
              /\ total_changes = SumCounts(nonzero)
    /\ pc = "done" =>
          /\ stdout # <<>>
          /\ stdout[Len(stdout)] =
                [line |-> "Completed", files_changed |-> files_changed,
                 total_changes |-> total_changes]
          /\ total_changes = SumCounts(DOMAIN returned)

\* A run ended with two files processed, one with a nonzero count and one with 0.
C6_Witness ==
    /\ pc = "done"
    /\ Len(returned) = 2
    /\ files_changed = 1
    /\ total_changes = 2

\* C7: Extension filter.  Only files whose name ends in ".ts" or ".tsx" are
\* passed to fix_file; every other file is never opened and keeps its content,
\* and the run creates no file.
C7_ExtensionFilter ==
    /\ file_path # NoPath => file_path \in CandidatePaths
    /\ \A i \in DOMAIN returned : returned[i].path \in CandidatePaths
    /\ opened \subseteq CandidatePaths
    /\ \A p \in OtherPaths : disk[p] = disk0[p]
    /\ DOMAIN disk = Paths

\* A run ended that rewrote a file and left aside a file that is no candidate
\* although the rules match in it.
C7_Witness ==
    /\ pc = "done"
    /\ wrote # {}
    /\ \E p \in OtherPaths : disk[p] = userId \o <<":">> \o userId

\* C9: File-handle release.  No file handle is open whenever fix_file has
\* returned, by the normal path or through its handler, and at most one handle
\* is open at any point of the run.
C9_HandlesReleased ==
    /\ Cardinality(handles) <= 1
    /\ pc \in { "return", "except", "main_if", "walk", "done", "aborted" } => handles = {}

\* fix_file has returned through its handler after a failure that struck while
\* the file was open for writing.
C9_Witness ==
    /\ pc = "main_if"
    /\ file_path \in failed
    /\ file_path \in wopened
    /\ disk[file_path] # disk0[file_path]
    /\ handles = {}

\* C10: The report agrees with the disk.  fix_file returns a count greater
\* than 0 for a file exactly when it completed a write of changed content to
\* it; a file whose write failed is reported as 0; and between two files and
\* at the end files_changed is the number of files overwritten.
C10_ReportMatchesDisk ==
    /\ \A i \in DOMAIN returned : returned[i].count > 0 <=> returned[i].path \in wrote
    /\ \A p \in wrote : disk[p] # disk0[p]
    /\ \A p \in wrote : p = file_path \/ ReturnsOf(p) # {}
    /\ failed \cap wrote = {}
    /\ BetweenFiles => files_changed = Cardinality(wrote)

\* A run ended in which one file was overwritten and the write of another failed.
C10_Witness ==
    /\ pc = "done"
    /\ wrote # {}
    /\ \E p \in failed : p \in wopened /\ disk[p] # disk0[p]

\* C8: Completion of the walk.  Whatever files fail, main starts a file only
\* when every file opened before has returned, and eventually prints the
\* summary and stops with each candidate file processed exactly once.
C8_Completes ==
    /\ [](pc = "walk" => \A p \in opened : ReturnsOf(p) # {})
    /\ <>[](/\ pc = "done"
            /\ \A p \in CandidatePaths : Cardinality(ReturnsOf(p)) = 1
            /\ Len(returned) = Cardinality(CandidatePaths)
            /\ stdout[Len(stdout)].line = "Completed")

\* A run over two candidate files ended, one of which failed.
C8_Witness ==
    /\ pc = "done"
    /\ Cardinality(CandidatePaths) = 2
    /\ Cardinality(failed) = 1
    /\ Len(returned) = 2
====
